---- MODULE Spec2Model ----
(***************************************************************************)
(* Model of img2b64: the size-fitting JPEG encoder jpeg_fit_to_b64_cap and *)
(* the batch driver run_batch of app/core.py.                              *)
(*                                                                         *)
(* Bytes are sequences of 0..255.  A JPEG file is abstracted as            *)
(*   <<255,216, w, h, c, o>> \o payload \o <<255,217>>                     *)
(* (SOI marker, a frame header carrying width, height, a content           *)
(* complexity and the EXIF orientation, entropy-coded payload, EOI         *)
(* marker).  Text is a sequence of ASCII codes.                             *)
(***************************************************************************)
EXTENDS Integers, Sequences, FiniteSets, TLC

(***************************************************************************)
(* Bounds of the model.                                                    *)
(***************************************************************************)
DimUnit == 34
MaxDimUnits == 5
PxUnit == 90
MaxPxUnits == 2
MaxCap == 24
FloorBelow == 3
FloorAbove == 1
MaxComplexity == 2
SizeScale == 100000
MaxFiles == 2
BatchCap == 22
MaxIoErrors == 1
StepHorizon == 12

(***************************************************************************)
(* Program constants.                                                      *)
(***************************************************************************)
Q_HI == 85
MIN_EDGE == 50
MAX_ATTEMPTS == 6

None == "None"

Max2(a, b) == IF a >= b THEN a ELSE b

CeilDiv(a, b) == (a + b - 1) \div b

(***************************************************************************)
(* Encoding Utility: base64 as base64.b64encode computes it.               *)
(***************************************************************************)
\* ASCII code of the i-th character of the base64 alphabet A-Z a-z 0-9 + /.
B64Char(i) ==
  IF i < 26 THEN 65 + i
  ELSE IF i < 52 THEN 97 + (i - 26)
  ELSE IF i < 62 THEN 48 + (i - 52)
  ELSE IF i = 62 THEN 43
  ELSE 47

B64Index(ch) ==
  IF ch >= 65 /\ ch <= 90 THEN ch - 65
  ELSE IF ch >= 97 /\ ch <= 122 THEN ch - 97 + 26
  ELSE IF ch >= 48 /\ ch <= 57 THEN ch - 48 + 52
  ELSE IF ch = 43 THEN 62
  ELSE 63

PAD == 61

\* Variant: a two-byte tail padded like a one-byte tail.
B64GroupBadPad(g) ==
  LET b1 == g[1]
      b2 == IF Len(g) >= 2 THEN g[2] ELSE 0
      b3 == IF Len(g) >= 3 THEN g[3] ELSE 0
      n  == b1 * 65536 + b2 * 256 + b3
      c1 == B64Char(n \div 262144)
      c2 == B64Char((n \div 4096) % 64)
      c3 == B64Char((n \div 64) % 64)
      c4 == B64Char(n % 64)
  IN  IF Len(g) <= 2 THEN << c1, c2, PAD, PAD >>
      ELSE << c1, c2, c3, c4 >>

B64Group(g) ==
  LET b1 == g[1]
      b2 == IF Len(g) >= 2 THEN g[2] ELSE 0
      b3 == IF Len(g) >= 3 THEN g[3] ELSE 0
      n  == b1 * 65536 + b2 * 256 + b3
      c1 == B64Char(n \div 262144)
      c2 == B64Char((n \div 4096) % 64)
      c3 == B64Char((n \div 64) % 64)
      c4 == B64Char(n % 64)
  IN  IF Len(g) = 1 THEN << c1, c2, PAD, PAD >>
      ELSE IF Len(g) = 2 THEN << c1, c2, c3, PAD >>
      ELSE << c1, c2, c3, c4 >>

RECURSIVE b64encode(_)
b64encode(b) ==
  IF Len(b) = 0 THEN << >>
  ELSE IF Len(b) <= 3 THEN B64Group(b)
  ELSE B64Group(SubSeq(b, 1, 3)) \o b64encode(SubSeq(b, 4, Len(b)))

B64UnGroup(t) ==
  LET pad == IF t[3] = PAD THEN 2 ELSE IF t[4] = PAD THEN 1 ELSE 0
      i1 == B64Index(t[1])
      i2 == B64Index(t[2])
      i3 == IF pad = 2 THEN 0 ELSE B64Index(t[3])
      i4 == IF pad >= 1 THEN 0 ELSE B64Index(t[4])
      n  == i1 * 262144 + i2 * 4096 + i3 * 64 + i4
      b1 == n \div 65536
      b2 == (n \div 256) % 256
      b3 == n % 256
  IN  IF pad = 2 THEN << b1 >>
      ELSE IF pad = 1 THEN << b1, b2 >>
      ELSE << b1, b2, b3 >>

RECURSIVE b64decode(_)
b64decode(t) ==
  IF Len(t) < 4 THEN << >>
  ELSE B64UnGroup(SubSeq(t, 1, 4)) \o b64decode(SubSeq(t, 5, Len(t)))

\* "data:image/jpeg;base64," in ASCII.
DATA_URI_PREFIX ==
  << 100, 97, 116, 97, 58, 105, 109, 97, 103, 101, 47, 106, 112, 101, 103, 59,
     98, 97, 115, 101, 54, 52, 44 >>

HasPrefix(t) ==
  /\ Len(t) >= Len(DATA_URI_PREFIX)
  /\ SubSeq(t, 1, Len(DATA_URI_PREFIX)) = DATA_URI_PREFIX

StripPrefix(t) ==
  IF HasPrefix(t) THEN SubSeq(t, Len(DATA_URI_PREFIX) + 1, Len(t)) ELSE t

(***************************************************************************)
(* Image Normalizer and JPEG codec (Pillow), abstracted.                   *)
(***************************************************************************)
HEADER_LEN == 8

Zeros(n) == [i \in 1..n |-> 0]

JpegBytes(w, h, c, o, n) ==
  << 255, 216, w, h, c, o >> \o Zeros(n - HEADER_LEN) \o << 255, 217 >>

IsJpeg(b) ==
  /\ Len(b) >= HEADER_LEN
  /\ b[1] = 255 /\ b[2] = 216
  /\ b[Len(b) - 1] = 255 /\ b[Len(b)] = 217
  /\ b[3] >= 1 /\ b[4] >= 1

\* Image.open + ImageOps.exif_transpose + convert("RGB"): orientations 5..8
\* swap width and height; the result carries no orientation.
ImageOpen(b) ==
  IF ~IsJpeg(b) THEN "DecodeError"
  ELSE IF b[6] >= 5
       THEN [w |-> b[4], h |-> b[3], c |-> b[5]]
       ELSE [w |-> b[3], h |-> b[4], c |-> b[5]]

\* Encoded length of im.save(format="JPEG", quality=q, ...): non-decreasing
\* in the quality and in both dimensions.
EncLen(im, q) == HEADER_LEN + (im.c * im.w * im.h * q) \div SizeScale

encode(im, q) == JpegBytes(im.w, im.h, im.c, 1, EncLen(im, q))

(***************************************************************************)
(* Size-Fitting Encoder: jpeg_fit_to_b64_cap.  The frame of one call is a  *)
(* record; pc is the position in the function body:                        *)
(*   "call"      before line 31                                            *)
(*   "search"    at the test of the quality search loop (line 61)          *)
(*   "downscale" at the test of the fallback loop (line 72)                *)
(*   "return"    at line 78                                                *)
(*   "done"      returned (data, meta);  "raised"  an exception escaped    *)
(***************************************************************************)
NoImage == [w |-> 0, h |-> 0, c |-> 0]

MaxBytes(cap_chars) == (cap_chars * 3) \div 4

\* Variant: one group too many when the length is a multiple of 3.
Base64CharsExtraGroup(n) == 4 * (n \div 3 + 1)

Base64Chars(n) == 4 * ((n + 2) \div 3)

LongEdge(im) == Max2(im.w, im.h)

\* int(h * (max_px / w)): floor of the quotient; IEEE rounding of max_px / w
\* can land just below an exact integer quotient, which slack = 1 covers.
ScaleDim(h, max_px, w, slack) ==
  IF (h * max_px) % w = 0
  THEN (h * max_px) \div w - slack
  ELSE (h * max_px) \div w

\* int(w * 0.85), identical to floor(17 w / 20) for every w < 10^5.
Shrink85(w) == (w * 17) \div 20

FitToMaxPx(im, max_px, slack) ==
  IF LongEdge(im) > max_px
  THEN IF im.w >= im.h
       THEN [im EXCEPT !.w = max_px, !.h = ScaleDim(im.h, max_px, im.w, slack)]
       ELSE [im EXCEPT !.h = max_px, !.w = ScaleDim(im.w, max_px, im.h, slack)]
  ELSE im

Frame(jpeg_bytes, cap_chars, max_px, quality_floor, pil, slack) ==
  [ pc |-> "call", jpeg_bytes |-> jpeg_bytes, cap_chars |-> cap_chars,
    max_px |-> max_px, quality_floor |-> quality_floor, pil |-> pil,
    slack |-> slack, max_bytes |-> 0, im |-> NoImage, data |-> << >>,
    q_lo |-> 0, q_hi |-> 0, attempts |-> 0, meta |-> [note |-> None] ]

\* Lines 31-59: capability check, decode, max_px resize, first encode.
FitOpen(s) ==
  IF ~s.pil
  THEN [s EXCEPT !.pc = "done", !.data = s.jpeg_bytes,
                 !.meta = [note |-> "Pillow not installed"]]
  ELSE IF ~IsJpeg(s.jpeg_bytes)
  THEN [s EXCEPT !.pc = "raised", !.max_bytes = MaxBytes(s.cap_chars)]
  ELSE LET im0 == ImageOpen(s.jpeg_bytes)
           im1 == FitToMaxPx(im0, s.max_px, s.slack)
       IN  IF im1.w < 1 \/ im1.h < 1
           THEN [s EXCEPT !.pc = "raised", !.max_bytes = MaxBytes(s.cap_chars),
                          !.im = im0]
           ELSE LET d == encode(im1, Q_HI)
                    mb == MaxBytes(s.cap_chars)
                IN  [s EXCEPT !.max_bytes = mb, !.im = im1, !.data = d,
                              !.q_hi = Q_HI,
                              !.q_lo = IF Len(d) > mb THEN s.quality_floor ELSE 0,
                              !.pc = IF Len(d) > mb THEN "search" ELSE "return"]

SearchCond(s) == s.q_lo < s.q_hi

\* Lines 62-68: one iteration of the quality search.
SearchIter(s) ==
  LET q_mid == (s.q_lo + s.q_hi) \div 2
      buf == encode(s.im, q_mid)
  IN  IF Len(buf) <= s.max_bytes
      THEN [s EXCEPT !.data = buf, !.q_hi = q_mid]
      ELSE [s EXCEPT !.q_lo = q_mid + 1]

\* Line 61 false, lines 70-71.
SearchExit(s) ==
  IF Len(s.data) > s.max_bytes
  THEN [s EXCEPT !.pc = "downscale", !.attempts = 0]
  ELSE [s EXCEPT !.pc = "return"]

\* Variant: no limit on the number of attempts.
DownscaleCondUnlimited(s) ==
  /\ Len(s.data) > s.max_bytes
  /\ LongEdge(s.im) > MIN_EDGE

DownscaleCond(s) ==
  /\ Len(s.data) > s.max_bytes
  /\ LongEdge(s.im) > MIN_EDGE
  /\ s.attempts < MAX_ATTEMPTS

Resize85(im) ==
  [im EXCEPT !.w = Max2(1, Shrink85(im.w)), !.h = Max2(1, Shrink85(im.h))]

\* Lines 73-76: one resize-and-encode attempt of the fallback.
DownscaleIter(s) ==
  LET im2 == Resize85(s.im)
  IN  [s EXCEPT !.im = im2, !.data = encode(im2, s.quality_floor),
                !.attempts = s.attempts + 1]

DownscaleExit(s) == [s EXCEPT !.pc = "return"]

\* Lines 78-83.
FitReturn(s) ==
  [s EXCEPT !.pc = "done",
            !.meta = [ final_dims |-> << s.im.w, s.im.h >>,
                       jpeg_bytes |-> Len(s.data),
                       base64_chars |-> Base64Chars(Len(s.data)) ]]

FitStep(s) ==
  CASE s.pc = "call" -> FitOpen(s)
    [] s.pc = "search" -> IF SearchCond(s) THEN SearchIter(s) ELSE SearchExit(s)
    [] s.pc = "downscale" ->
         IF DownscaleCond(s) THEN DownscaleIter(s) ELSE DownscaleExit(s)
    [] s.pc = "return" -> FitReturn(s)
    [] OTHER -> s

RECURSIVE FitRun(_)
FitRun(s) == IF s.pc \in {"done", "raised"} THEN s ELSE FitRun(FitStep(s))

jpeg_fit_to_b64_cap(jpeg_bytes, cap_chars, max_px, quality_floor, pil, slack) ==
  FitRun(Frame(jpeg_bytes, cap_chars, max_px, quality_floor, pil, slack))

(***************************************************************************)
(* State.                                                                  *)
(***************************************************************************)
VARIABLES PIL_OK, fit

fitVars == << fit >>

VARIABLES case_fold, fs_in, config, pc, files, idx, io, out_dir_exists,
          fs_out, out_map, total_in, total_out_b64chars, skipped, log,
          manifest_json, manifest_csv, ret

batchVars == << case_fold, fs_in, config, pc, files, idx, io,
                out_dir_exists, fs_out, out_map, total_in,
                total_out_b64chars, skipped, log, manifest_json,
                manifest_csv, ret >>

vars == << PIL_OK, fitVars, batchVars >>

Dims == {1} \cup { DimUnit * i : i \in 1..MaxDimUnits }

Orientations == {1, 6}

Complexities == 1..MaxComplexity

MaxPxs == { PxUnit * i : i \in 1..MaxPxUnits }

Caps == 1..MaxCap

Floors == (Q_HI - FloorBelow)..(Q_HI + FloorAbove)

\* A source picture as stored on disk: encoded at quality 95.
SourceJpeg(w, h, c, o) ==
  JpegBytes(w, h, c, o, EncLen([w |-> w, h |-> h, c |-> c], 95))

CORRUPT == << 10, 20, 30 >>

(***************************************************************************)
(* Specification of one call of jpeg_fit_to_b64_cap.                       *)
(***************************************************************************)
NoPath == [dir |-> "", stem |-> "", ext |-> ""]

EmptyDir == [p \in {} |-> << >>]

NoConfig ==
  [ recurse |-> FALSE, data_uri |-> FALSE, cap_chars |-> << >>,
    max_px |-> 0, quality_floor |-> 0 ]

BatchIdle ==
  /\ case_fold = FALSE
  /\ fs_in = EmptyDir
  /\ config = NoConfig
  /\ pc = "idle"
  /\ files = << >>
  /\ idx = 0
  /\ io = << >>
  /\ out_dir_exists = FALSE
  /\ fs_out = EmptyDir
  /\ out_map = << >>
  /\ total_in = 0
  /\ total_out_b64chars = 0
  /\ skipped = 0
  /\ log = << >>
  /\ manifest_json = << >>
  /\ manifest_csv = << >>
  /\ ret = -1

InitFit ==
  /\ BatchIdle
  /\ PIL_OK \in BOOLEAN
  /\ \E w \in Dims, h \in Dims, c \in Complexities, o \in Orientations,
        cap \in Caps, mp \in MaxPxs, qf \in Floors, sl \in {0, 1},
        bad \in BOOLEAN :
       fit = Frame(IF bad THEN CORRUPT ELSE SourceJpeg(w, h, c, o),
                   cap, mp, qf, PIL_OK, sl)

Open ==
  /\ fit.pc = "call"
  /\ fit' = FitOpen(fit)
  /\ UNCHANGED << PIL_OK, batchVars >>

SearchStep ==
  /\ fit.pc = "search"
  /\ SearchCond(fit)
  /\ fit' = SearchIter(fit)
  /\ UNCHANGED << PIL_OK, batchVars >>

SearchEnd ==
  /\ fit.pc = "search"
  /\ ~SearchCond(fit)
  /\ fit' = SearchExit(fit)
  /\ UNCHANGED << PIL_OK, batchVars >>

DownscaleStep ==
  /\ fit.pc = "downscale"
  /\ DownscaleCond(fit)
  /\ fit' = DownscaleIter(fit)
  /\ UNCHANGED << PIL_OK, batchVars >>

DownscaleEnd ==
  /\ fit.pc = "downscale"
  /\ ~DownscaleCond(fit)
  /\ fit' = DownscaleExit(fit)
  /\ UNCHANGED << PIL_OK, batchVars >>

Return ==
  /\ fit.pc = "return"
  /\ fit' = FitReturn(fit)
  /\ UNCHANGED << PIL_OK, batchVars >>

NextFit == Open \/ SearchStep \/ SearchEnd \/ DownscaleStep \/ DownscaleEnd \/ Return

SpecFit == InitFit /\ [][NextFit]_vars

(***************************************************************************)
(* Batch Driver: run_batch.  pc is the position in the function body:      *)
(*   "start"    before line 96                                             *)
(*   "loop"     at the head of the per-file loop (line 112)                *)
(*   "finish"   after the loop (line 153)                                  *)
(*   "returned" run_batch returned ret;  "raised"  an exception escaped    *)
(***************************************************************************)
File(d, e) == [dir |-> d, stem |-> "a", ext |-> e]

Paths ==
  { File("", ".jpg"), File("", ".jpeg"), File("", ".JPG"), File("", ".Jpg"),
    File("", ".png"), File("sub", ".jpg") }

\* str.lower() on the extensions of the model.
LowerExt(e) ==
  CASE e \in {".jpg", ".JPG", ".Jpg"} -> ".jpg"
    [] e \in {".jpeg", ".JPEG"} -> ".jpeg"
    [] OTHER -> e

SameFile(p, q) == p.dir = q.dir /\ p.stem = q.stem /\ LowerExt(p.ext) = LowerExt(q.ext)

patterns == << ".jpg", ".jpeg", ".JPG", ".JPEG" >>

\* Path.glob / Path.rglob of "*" + pat: glob sees the top directory only;
\* the match is case-sensitive except on a case-folding platform (Windows).
Matches(pat, p, recurse, fold) ==
  /\ (recurse \/ p.dir = "")
  /\ IF fold THEN LowerExt(p.ext) = LowerExt(pat) ELSE p.ext = pat

Orderings(S) ==
  { o \in [1..Cardinality(S) -> S] : \A i, j \in 1..Cardinality(S) : o[i] = o[j] => i = j }

\* rel.with_suffix(".b64.txt") under output_dir.
OutFile(p) == [dir |-> p.dir, stem |-> p.stem, ext |-> ".b64.txt"]

WriteFile(fs, p, text) ==
  [q \in DOMAIN fs \cup {p} |-> IF q = p THEN text ELSE fs[q]]

SAMPLE_JPEG == SourceJpeg(DimUnit * 3, DimUnit * 2, MaxComplexity, 1)

Contents == { SAMPLE_JPEG, CORRUPT }

Directories ==
  UNION { [S -> Contents] : S \in { T \in SUBSET Paths : Cardinality(T) <= MaxFiles } }

Configs ==
  [ recurse : BOOLEAN, data_uri : BOOLEAN, cap_chars : { << >>, << BatchCap >> },
    max_px : { PxUnit }, quality_floor : { Q_HI - 2 } ]

FitIdle == fit = Frame(<< >>, 0, 0, 0, FALSE, 0)

InitBatch ==
  /\ FitIdle
  /\ config \in Configs
  \* Pillow is consulted only when cap_chars is set (line 117).
  /\ PIL_OK \in IF config.cap_chars = << >> THEN {TRUE} ELSE BOOLEAN
  /\ case_fold \in BOOLEAN
  /\ fs_in \in Directories
  /\ case_fold => \A p, q \in DOMAIN fs_in : SameFile(p, q) => p = q
  /\ pc = "start"
  /\ files = << >>
  /\ idx = 0
  /\ io = << >>
  /\ out_dir_exists = FALSE
  /\ fs_out = EmptyDir
  /\ out_map = << >>
  /\ total_in = 0
  /\ total_out_b64chars = 0
  /\ skipped = 0
  /\ log = << >>
  /\ manifest_json = << >>
  /\ manifest_csv = << >>
  /\ ret = -1

LogLine(kind, file, n) == [kind |-> kind, file |-> file, n |-> n]

MatchSet(k) ==
  { p \in DOMAIN fs_in : Matches(patterns[k], p, config.recurse, case_fold) }

\* Variant: the output directory is created before the emptiness test.
DiscoverNoneAfterMkdir ==
  /\ pc = "start"
  /\ \A k \in 1..4 : MatchSet(k) = {}
  /\ out_dir_exists' = TRUE
  /\ log' = Append(log, LogLine("No JPG/JPEG files found.", NoPath, 0))
  /\ ret' = 1
  /\ pc' = "returned"
  /\ UNCHANGED << PIL_OK, fit, case_fold, fs_in, config, files, idx, io,
                  fs_out, out_map, total_in, total_out_b64chars, skipped,
                  manifest_json, manifest_csv >>

\* Lines 96-103 when nothing matches: log and return 1.
DiscoverNone ==
  /\ pc = "start"
  /\ \A k \in 1..4 : MatchSet(k) = {}
  /\ log' = Append(log, LogLine("No JPG/JPEG files found.", NoPath, 0))
  /\ ret' = 1
  /\ pc' = "returned"
  /\ UNCHANGED << PIL_OK, fit, case_fold, fs_in, config, files, idx, io,
                  out_dir_exists, fs_out, out_map, total_in,
                  total_out_b64chars, skipped, manifest_json, manifest_csv >>

\* The matches of pattern k in the order the directory lists them.
RECURSIVE Listed(_, _, _)
Listed(order, k, n) ==
  IF n = 0 THEN << >>
  ELSE IF order[n] \in MatchSet(k)
       THEN Append(Listed(order, k, n - 1), order[n])
       ELSE Listed(order, k, n - 1)

\* Lines 96-110 otherwise: collect the matches pattern by pattern, each
\* pattern's matches in the (arbitrary) listing order of the directory, and
\* create the output directory.
DiscoverSome ==
  /\ pc = "start"
  /\ \E k \in 1..4 : MatchSet(k) # {}
  /\ \E order \in Orderings(DOMAIN fs_in), mkdir_ok \in BOOLEAN :
       LET n == Cardinality(DOMAIN fs_in)
       IN  /\ files' = Listed(order, 1, n) \o Listed(order, 2, n)
                         \o Listed(order, 3, n) \o Listed(order, 4, n)
           /\ out_dir_exists' = mkdir_ok
           /\ pc' = IF mkdir_ok THEN "loop" ELSE "raised"
  /\ idx' = 1
  /\ UNCHANGED << PIL_OK, fit, case_fold, fs_in, config, io, fs_out, out_map,
                  total_in, total_out_b64chars, skipped, log, manifest_json,
                  manifest_csv, ret >>

\* Lines 117-128: the bytes to encode, or the frame of a call that raised.
Shrunk(b, slack) ==
  IF config.cap_chars # << >>
  THEN jpeg_fit_to_b64_cap(b, config.cap_chars[1], config.max_px,
                           config.quality_floor, PIL_OK, slack)
  ELSE [Frame(b, 0, 0, 0, PIL_OK, slack) EXCEPT !.pc = "done", !.data = b]

B64Full(b) ==
  IF config.data_uri THEN DATA_URI_PREFIX \o b64encode(b) ELSE b64encode(b)

Entry(p, orig, b, text) ==
  [ source |-> p, output |-> OutFile(p), orig_bytes |-> Len(orig),
    final_jpeg_bytes |-> Len(b), base64_chars |-> Len(text),
    data_uri |-> config.data_uri ]

\* What the file system does to this file's read and write: nothing wrong;
\* an error before the output file is touched (read_bytes, mkdir or open);
\* an error after open() truncated the output file.
IoOutcomes == {"ok", "io_error", "write_truncated"}

IoErrors == Cardinality({ k \in 1..Len(io) : io[k] # "ok" })

\* Variant: the failure is logged but not counted.
SkipUncounted(p) ==
  /\ log' = Append(log, LogLine("[WARN]", p, 0))
  /\ UNCHANGED << skipped, out_map, total_in, total_out_b64chars >>

\* Lines 149-151.
Skip(p) ==
  /\ skipped' = skipped + 1
  /\ log' = Append(log, LogLine("[WARN]", p, 0))
  /\ UNCHANGED << out_map, total_in, total_out_b64chars >>

\* Lines 112-151: one pass of the loop body for files[idx].
ProcessFile ==
  /\ pc = "loop"
  /\ idx <= Len(files)
  /\ \E outcome \in IoOutcomes, slack \in {0, 1} :
       LET p == files[idx]
           orig == fs_in[p]
           r == Shrunk(orig, slack)
           b == r.data
           text == B64Full(b)
       IN  /\ outcome # "ok" => IoErrors < MaxIoErrors
           /\ io' = Append(io, outcome)
           /\ IF outcome = "io_error" \/ r.pc = "raised"
              THEN Skip(p) /\ UNCHANGED fs_out
              ELSE IF outcome = "write_truncated"
              THEN Skip(p) /\ fs_out' = WriteFile(fs_out, OutFile(p), << >>)
              ELSE /\ fs_out' = WriteFile(fs_out, OutFile(p), text)
                   /\ total_in' = total_in + Len(orig)
                   /\ total_out_b64chars' = total_out_b64chars + Len(text)
                   /\ out_map' = Append(out_map, Entry(p, orig, b, text))
                   /\ UNCHANGED << skipped, log >>
  /\ idx' = idx + 1
  /\ UNCHANGED << PIL_OK, fit, case_fold, fs_in, config, pc, files,
                  out_dir_exists, manifest_json, manifest_csv, ret >>

LoopEnd ==
  /\ pc = "loop"
  /\ idx > Len(files)
  /\ pc' = "finish"
  /\ UNCHANGED << PIL_OK, fit, case_fold, fs_in, config, files, idx, io,
                  out_dir_exists, fs_out, out_map, total_in,
                  total_out_b64chars, skipped, log, manifest_json,
                  manifest_csv, ret >>

CSV_HEADER ==
  << "source", "output", "orig_bytes", "final_jpeg_bytes", "base64_chars", "data_uri" >>

CsvRow(row) ==
  << row.source, row.output, row.orig_bytes, row.final_jpeg_bytes,
     row.base64_chars, row.data_uri >>

SummaryLog ==
  LET l1 == Append(log, LogLine("Done.", NoPath, total_out_b64chars))
      l2 == IF skipped # 0 THEN Append(l1, LogLine("Skipped", NoPath, skipped)) ELSE l1
  IN  Append(l2, LogLine("Outputs are in:", NoPath, 0))

\* Lines 153-177: write the manifests, log the summary, return 0.  The
\* argument csv_map is read here only and is drawn here.
Finish ==
  /\ pc = "finish"
  /\ manifest_json' = << out_map >>
  /\ \E csv_map \in BOOLEAN :
       manifest_csv' = IF csv_map
                       THEN << CSV_HEADER >> \o [k \in 1..Len(out_map) |-> CsvRow(out_map[k])]
                       ELSE << >>
  /\ log' = SummaryLog
  /\ ret' = 0
  /\ pc' = "returned"
  /\ UNCHANGED << PIL_OK, fit, case_fold, fs_in, config, files, idx, io,
                  out_dir_exists, fs_out, out_map, total_in,
                  total_out_b64chars, skipped >>

\* Lines 153-162 when a manifest cannot be written: the exception escapes.
FinishRaises ==
  /\ pc = "finish"
  /\ pc' = "raised"
  /\ UNCHANGED << PIL_OK, fit, case_fold, fs_in, config, files, idx, io,
                  out_dir_exists, fs_out, out_map, total_in,
                  total_out_b64chars, skipped, log, manifest_json,
                  manifest_csv, ret >>

Next == DiscoverNone \/ DiscoverSome \/ ProcessFile \/ LoopEnd \/ Finish \/ FinishRaises

Spec == InitBatch /\ [][Next]_vars

(***************************************************************************)
(* Properties of jpeg_fit_to_b64_cap (checked under SpecFit).              *)
(***************************************************************************)
RECURSIVE Chain(_, _)
Chain(im, k) == IF k = 0 THEN im ELSE Chain(Resize85(im), k - 1)

\* The picture the searches start from: decoded, upright, fitted to max_px.
StartImage(s) == FitToMaxPx(ImageOpen(s.jpeg_bytes), s.max_px, s.slack)

\* Some size within `steps` downscale steps, longer edge still >= 50, at
\* which the encoding at quality_floor is within the byte budget.
Achievable(s, steps) ==
  \E k \in 0..steps :
    LET imk == Chain(StartImage(s), k)
    IN  /\ LongEdge(imk) >= MIN_EDGE
        /\ EncLen(imk, s.quality_floor) <= MaxBytes(s.cap_chars)

Returned == fit.pc = "done" /\ fit.pil

\* C1 (as stated): whenever the budget is achievable at some proportionally
\* downscaled size with longer edge >= 50, however many 0.85 steps away, the
\* returned base64_chars is at most cap_chars.
C1_AsStated ==
  (Returned /\ Achievable(fit, StepHorizon))
    => fit.meta.base64_chars <= fit.cap_chars

\* C2 (as stated): whenever the returned bytes are within max_bytes, the
\* reported base64_chars is at most cap_chars.
C2_AsStated ==
  (Returned /\ Len(fit.data) <= fit.max_bytes)
    => fit.meta.base64_chars <= fit.cap_chars

\* C2 (amended): whenever the returned bytes are within max_bytes, the
\* reported base64_chars is at most cap_chars + 2, and at most cap_chars
\* when cap_chars mod 4 is 0 or 1.
C2_WithinTwoChars ==
  (Returned /\ Len(fit.data) <= fit.max_bytes)
    => /\ fit.meta.base64_chars <= fit.cap_chars + 2
       /\ (fit.cap_chars % 4 \in {0, 1}
             => fit.meta.base64_chars <= fit.cap_chars)

C2_Witness ==
  /\ Returned
  /\ fit.q_hi < Q_HI
  /\ Len(fit.data) <= fit.max_bytes
  /\ fit.meta.base64_chars = fit.cap_chars + 2

Fitting(s) ==
  { q \in s.quality_floor..Q_HI : EncLen(s.im, q) <= s.max_bytes }

Lowest(S) == CHOOSE q \in S : \A r \in S : q <= r

\* C8: when the quality search ends and some quality in [quality_floor, 85]
\* fits, it holds the encoding at the lowest fitting quality; the fallback
\* is entered only when quality_floor does not fit at the current size.
C8_LowestFittingQuality ==
  /\ (fit.pc = "search" /\ ~(fit.q_lo < fit.q_hi) /\ Fitting(fit) # {})
       => /\ fit.q_hi = Lowest(Fitting(fit))
          /\ fit.data = encode(fit.im, Lowest(Fitting(fit)))
  /\ (fit.pc = "downscale" /\ fit.attempts = 0)
       => EncLen(fit.im, fit.quality_floor) > fit.max_bytes

AttemptMade == fit'.attempts = fit.attempts + 1

\* C9: the fallback makes at most 6 attempts; at the loop test another
\* attempt follows exactly when the encoding is over max_bytes, the longer
\* edge is > 50 and fewer than 6 attempts were made; each attempt strictly
\* shrinks the longer edge to max(1, floor(0.85 * old)) per dimension.
C9_FallbackLoop ==
  /\ [](fit.attempts <= 6)
  /\ [][ /\ (fit.pc = "downscale" =>
               (AttemptMade <=> /\ Len(fit.data) > fit.max_bytes
                                /\ Max2(fit.im.w, fit.im.h) > 50
                                /\ fit.attempts < 6))
         /\ (AttemptMade =>
               /\ Max2(fit'.im.w, fit'.im.h) < Max2(fit.im.w, fit.im.h)
               /\ fit'.im.w = Max2(1, (17 * fit.im.w) \div 20)
               /\ fit'.im.h = Max2(1, (17 * fit.im.h) \div 20)
               /\ fit'.im.w >= 1 /\ fit'.im.h >= 1) ]_vars

C9_Witness ==
  /\ fit.pc = "return"
  /\ fit.attempts = 6
  /\ Len(fit.data) > fit.max_bytes
  /\ Max2(fit.im.w, fit.im.h) > 50

(***************************************************************************)
(* Properties of run_batch (checked under Spec).                           *)
(***************************************************************************)
Manifest == IF manifest_json = << >> THEN << >> ELSE manifest_json[1]

\* C3: every manifest entry has base64_chars = 4 * ceil(final_jpeg_bytes / 3).
C3_ManifestBase64Chars ==
  \A k \in 1..Len(Manifest) :
    Manifest[k].base64_chars = 4 * CeilDiv(Manifest[k].final_jpeg_bytes, 3)

\* The encode step of files[k] raises: the encoder is in use and the bytes
\* are not a decodable image.
EncodeRaises(k) ==
  config.cap_chars # << >> /\ PIL_OK /\ ~IsJpeg(fs_in[files[k]])

Failed(k) == io[k] # "ok" \/ EncodeRaises(k)

RECURSIVE Survivors(_)
Survivors(n) ==
  IF n = 0 THEN << >>
  ELSE IF Failed(n) THEN Survivors(n - 1)
  ELSE Append(Survivors(n - 1), files[n])

RECURSIVE SumOf(_, _)
SumOf(f, n) == IF n = 0 THEN 0 ELSE f[n] + SumOf(f, n - 1)

\* C4: once the loop is over every discovered file was processed, the
\* manifest holds exactly the non-failing files in discovery order, skipped
\* counts the failing ones, the totals count the non-failing ones only, and
\* run_batch returns 0, also when every file failed.
C4_FailureIsolation ==
  (pc \in {"finish", "returned"} /\ files # << >>)
    => /\ Len(io) = Len(files)
       /\ [k \in 1..Len(out_map) |-> out_map[k].source] = Survivors(Len(files))
       /\ skipped = Cardinality({ k \in 1..Len(files) : Failed(k) })
       /\ total_in = SumOf([k \in 1..Len(out_map) |-> Len(fs_in[out_map[k].source])],
                           Len(out_map))
       /\ total_out_b64chars
            = SumOf([k \in 1..Len(out_map) |-> out_map[k].base64_chars], Len(out_map))
       /\ (pc = "returned" => ret = 0 /\ Manifest = out_map)

C4_Witness ==
  /\ pc = "returned"
  /\ Len(files) >= 2
  /\ io[1] = "ok" /\ Failed(1)
  /\ io[2] = "ok" /\ ~Failed(2)
  /\ skipped = 1
  /\ Len(Manifest) = 1
  /\ ret = 0

\* C5: run_batch returns 1 exactly when it discovered no file, and then it
\* has logged one message and created neither the output directory nor a
\* manifest nor any output file.
C5_NoInputFiles ==
  /\ (pc # "start" /\ files = << >>) => (pc = "returned" /\ ret = 1)
  /\ ret = 1 =>
       /\ files = << >>
       /\ Len(log) = 1 /\ log[1].kind = "No JPG/JPEG files found."
       /\ ~out_dir_exists
       /\ manifest_json = << >> /\ manifest_csv = << >>
       /\ fs_out = EmptyDir
  /\ pc = "returned" => ret \in {0, 1}

C5_Witness ==
  /\ pc = "returned"
  /\ ret = 1
  /\ DOMAIN fs_in # {}
  /\ \E p \in DOMAIN fs_in : p.ext = ".png"

Decoded(p) == b64decode(StripPrefix(fs_out[p]))

ManifestSourcesValid ==
  \A k \in 1..Len(out_map) : IsJpeg(fs_in[out_map[k].source])

\* C6 (as stated): every output file that was written in full decodes, the
\* data-URI prefix stripped, to a valid JPEG, and no undecodable source has
\* a manifest entry, whatever the configuration.
C6_AsStated ==
  /\ \A p \in DOMAIN fs_out : fs_out[p] # << >> => IsJpeg(Decoded(p))
  /\ ManifestSourcesValid

Validating == config.cap_chars # << >> /\ PIL_OK

\* C6 (amended): with cap_chars set and Pillow available every output file
\* written in full decodes to a valid JPEG and no undecodable source has a
\* manifest entry; otherwise every output file written in full decodes to
\* exactly the bytes of a source file it is named after.
C6_RoundTrip ==
  /\ \A p \in DOMAIN fs_out :
       fs_out[p] # << >> =>
         IF Validating
         THEN IsJpeg(Decoded(p))
         ELSE \E k \in 1..Len(files) :
                OutFile(files[k]) = p /\ Decoded(p) = fs_in[files[k]]
  /\ Validating => ManifestSourcesValid

C6_Witness ==
  /\ pc = "returned"
  /\ Validating
  /\ config.data_uri
  /\ \E k \in 1..Len(files) : ~IsJpeg(fs_in[files[k]])
  /\ \E p \in DOMAIN fs_out :
       /\ IsJpeg(Decoded(p))
       /\ Len(Decoded(p)) % 3 # 0
       /\ Len(Decoded(p)) < Len(SAMPLE_JPEG)

Occurrences(p) == Cardinality({ k \in 1..Len(files) : files[k] = p })

Wanted(p) ==
  /\ (config.recurse \/ p.dir = "")
  /\ LowerExt(p.ext) \in {".jpg", ".jpeg"}

\* C7: after discovery the file list holds every file of the input
\* directory (of its subdirectories too when recurse is set) whose
\* extension is a case variant of .jpg or .jpeg exactly once, and no other.
C7_CaseInsensitiveDiscovery ==
  pc # "start" =>
    \A p \in DOMAIN fs_in : Occurrences(p) = IF Wanted(p) THEN 1 ELSE 0

\* C10: when run_batch has returned, distinct manifest entries name
\* distinct output paths and each entry's output file holds the base64 text
\* of that entry's source file.
C10_OutputsDistinct ==
  (pc = "returned" /\ ret = 0) =>
    /\ \A i, j \in 1..Len(Manifest) :
         i # j => Manifest[i].output # Manifest[j].output
    /\ \A i \in 1..Len(Manifest) :
         \E slack \in {0, 1} :
           fs_out[Manifest[i].output]
             = B64Full(Shrunk(fs_in[Manifest[i].source], slack).data)

====
